---- MODULE Spec2Model ----
(***************************************************************************)
(* Model of safe/gis/vector/tools.py (InaSAFE): copy_layer, copy_fields    *)
(* and remove_fields acting on QGIS vector layers.                         *)
(*                                                                         *)
(* A layer is a record                                                     *)
(*   provFields, provFeatures : what the data provider holds (committed),  *)
(*   editing                  : an edit session is open (edit buffer),     *)
(*   addedFields, addedFeatures, changed : the edit buffer's pending edits *)
(* Readers of a layer (layer.fields(), layer.getFeatures()) see the        *)
(* provider's data with the edit buffer laid over it.  commitChanges()     *)
(* returns False on failure and then keeps the edit buffer and the open    *)
(* session (QgsVectorLayer.commitChanges: "the in-memory changes are left  *)
(* untouched and are not discarded").                                      *)
(*                                                                         *)
(* Indices are 0-based as in the code, -1 is "no such field"; sequences    *)
(* are 1-based, hence the +1 / -1 at the accesses.                         *)
(***************************************************************************)
EXTENDS Integers, Sequences, FiniteSets, TLC

VARIABLES source, target, layer, last, calls, spatial_index

vars == <<source, target, layer, last, calls, spatial_index>>

\* ---------------------------------------------------------------- bounds
\* Number of features of the source layer of copy_layer.
MaxSourceFeatures == 2
\* Number of copy_layer calls on one target.
MaxCalls == 2
\* Number of features of the layer the field editor works on.
NumLayerFeatures == 2
\* Number of field editor calls on one layer.
MaxEditorCalls == 1

\* ---------------------------------------------------------------- values
\* Python None (feature.geometry() of a feature without geometry, and the
\* geometry_checker's answer when nothing valid could be made).
None == "None"
\* The geometry QgsGeometry(None) builds: a geometry object holding nothing.
EmptyGeometry == "empty"
\* Source geometries: absent, valid, invalid and repairable, invalid and
\* lost by the repair, invalid and still invalid after the repair.
SourceGeometries == {None, "valid", "fixable", "broken", "stubborn"}
\* QVariant() : the NULL attribute value.
NULL == "NULL"
\* Field names: those a call may name, and those fields_to_copy has as keys.
Names == {"A", "B", "C"}
OldNames == {"A", "B"}
WkbFamilies == {"Point", "Line", "Polygon", "NoGeometry"}

Range(s) == {s[i] : i \in DOMAIN s}

\* ------------------------------------------------- QGIS layer primitives
\* layer.fields(): the provider's fields followed by the buffer's added ones.
layerFields(L) == L.provFields \o L.addedFields

fieldNameIndex(L, name) ==
    LET fs == layerFields(L)
        hits == {i \in DOMAIN fs : fs[i].name = name}
    IN  IF hits = {} THEN -1
        ELSE (CHOOSE i \in hits : \A j \in hits : i <= j) - 1

\* QgsFeature.attributes() of committed feature k as a reader of the layer
\* sees it: the provider's values, one NULL per added field, then the
\* buffer's changed values (each at its recorded index, when in range).
visibleAttributes(L, k) ==
    LET base == L.provFeatures[k].attrs \o [i \in 1..Len(L.addedFields) |-> NULL]
    IN  [i \in 1..Len(base) |->
            IF \E c \in L.changed : c.fid = k /\ c.idx = i - 1
            THEN (CHOOSE c \in L.changed : c.fid = k /\ c.idx = i - 1).val
            ELSE base[i]]

\* layer.getFeatures(): committed features (id k > 0) with the buffer laid
\* over them, then the buffer's added features (id -j < 0).
getFeatures(L) ==
    [k \in 1..Len(L.provFeatures) |->
        [id |-> k, geom |-> L.provFeatures[k].geom,
         attrs |-> visibleAttributes(L, k)]]
    \o
    [j \in 1..Len(L.addedFeatures) |->
        [id |-> 0 - j, geom |-> L.addedFeatures[j].geom,
         attrs |-> L.addedFeatures[j].attrs]]

\* What the features hold, without their ids (an added feature gets a new
\* id when it is committed).
featureContents(L) ==
    LET fs == getFeatures(L)
    IN  [k \in DOMAIN fs |-> [geom |-> fs[k].geom, attrs |-> fs[k].attrs]]

\* layer.startEditing(): opens an edit session unless one is open already.
startEditing(L) == IF L.editing THEN L ELSE [L EXCEPT !.editing = TRUE]

\* layer.addFeature(f): stages a copy of f in the edit buffer; refused
\* when no edit session is open.
addFeature(L, f) ==
    IF ~L.editing THEN L
    ELSE [L EXCEPT !.addedFeatures = Append(@, f)]

\* layer.addAttribute(field): stages a new field; refused when no session
\* is open or when a field of that name exists already.  Added features of
\* the buffer get a NULL for it.
addAttribute(L, field) ==
    IF ~L.editing \/ fieldNameIndex(L, field.name) # -1 THEN L
    ELSE [L EXCEPT !.addedFields = Append(@, field),
                   !.addedFeatures =
                       [j \in DOMAIN @ |->
                           [@[j] EXCEPT !.attrs = Append(@, NULL)]]]

\* layer.changeAttributeValue(fid, idx, value): refused without a session
\* or when idx is no field index; a committed feature's change is recorded
\* in the buffer, an added feature is changed in place.
changeAttributeValue(L, fid, idx, value) ==
    IF ~L.editing \/ idx < 0 \/ idx >= Len(layerFields(L)) THEN L
    ELSE IF fid > 0
    THEN [L EXCEPT !.changed =
             {c \in @ : ~(c.fid = fid /\ c.idx = idx)}
             \cup {[fid |-> fid, idx |-> idx, val |-> value]}]
    ELSE IF (0 - fid) \in DOMAIN L.addedFeatures
            /\ idx + 1 \in DOMAIN L.addedFeatures[0 - fid].attrs
    THEN [L EXCEPT !.addedFeatures[0 - fid].attrs[idx + 1] = value]
    ELSE L

\* dataProvider.addAttributes(fields) of the memory provider: each field is
\* appended to the schema (a name already there is refused) and every
\* stored feature gets a NULL for it.
RECURSIVE addAttributes(_, _)
addAttributes(L, flds) ==
    IF flds = <<>> THEN L
    ELSE LET f == Head(flds)
             exists == \E i \in DOMAIN L.provFields : L.provFields[i].name = f.name
             L1 == IF exists THEN L
                   ELSE [L EXCEPT !.provFields = Append(@, f),
                                  !.provFeatures =
                                      [k \in DOMAIN @ |->
                                          [@[k] EXCEPT !.attrs = Append(@, NULL)]]]
         IN  addAttributes(L1, Tail(flds))

\* s without the elements at the 0-based positions idxs, from the highest
\* position down (positions out of range name nothing).
RECURSIVE removeAt(_, _)
removeAt(s, idxs) ==
    IF s = <<>> THEN <<>>
    ELSE LET n == Len(s)
             rest == removeAt(SubSeq(s, 1, n - 1), idxs)
         IN  IF (n - 1) \in idxs THEN rest ELSE Append(rest, s[n])

\* Mutant: the fields leave the schema and the features keep their values.
deleteAttributes_SchemaOnly(L, idxs) ==
    [L EXCEPT !.provFields = removeAt(@, idxs)]

\* dataProvider.deleteAttributes(indexes) of the memory provider: the
\* indexes are a set; the fields at them leave the schema and every stored
\* feature loses its values at them.  The edit buffer is not told.
deleteAttributes(L, idxs) ==
    [L EXCEPT !.provFields = removeAt(@, idxs),
              !.provFeatures =
                  [k \in DOMAIN @ |-> [@[k] EXCEPT !.attrs = removeAt(@, idxs)]]]

\* The provider's part of a successful commit: added fields, then changed
\* values (QgsFeature.setAttribute ignores an index out of range), then
\* added features.
applyBuffer(L) ==
    LET L1 == addAttributes(L, L.addedFields)
        L2 == [L1 EXCEPT !.provFeatures =
                  [k \in DOMAIN @ |->
                      [@[k] EXCEPT !.attrs =
                          [i \in DOMAIN @ |->
                              IF \E c \in L.changed : c.fid = k /\ c.idx = i - 1
                              THEN (CHOOSE c \in L.changed :
                                        c.fid = k /\ c.idx = i - 1).val
                              ELSE @[i]]]]]
    IN  [L2 EXCEPT !.provFeatures = @ \o L.addedFeatures]

\* layer.commitChanges(), ok being whether the provider accepts the edits.
\* Success writes the buffer to the provider and closes the session;
\* failure (also: no session open) changes nothing and keeps the session.
commitChanges(L, ok) ==
    IF ~L.editing \/ ~ok THEN L
    ELSE [applyBuffer(L) EXCEPT !.editing = FALSE,
                                !.addedFields = <<>>,
                                !.addedFeatures = <<>>,
                                !.changed = {}]

\* The value commitChanges() returns.
commitResult(L, ok) == L.editing /\ ok

\* --------------------------------------------------- create_memory_layer
\* Raising MemoryLayerCreationError, in place of the type string.
MemoryLayerCreationError == "MemoryLayerCreationError"

\* Mutant: a geometry that is none of the four makes a layer without
\* geometry.
typeString_Lenient(geometry) ==
    CASE geometry = "Point" -> "MultiPoint"
      [] geometry = "Line" -> "MultiLineString"
      [] geometry = "Polygon" -> "MultiPolygon"
      [] OTHER -> "none"

\* Lines 106-116: type_string, or the error raised.
typeString(geometry) ==
    CASE geometry = "Point" -> "MultiPoint"
      [] geometry = "Line" -> "MultiLineString"
      [] geometry = "Polygon" -> "MultiPolygon"
      [] geometry = "NoGeometry" -> "none"
      [] OTHER -> MemoryLayerCreationError

\* str.lower() on the authority identifiers in use.
lower(authid) ==
    CASE authid = "EPSG:4326" -> "epsg:4326"
      [] authid = "EPSG:32748" -> "epsg:32748"
      [] OTHER -> authid

\* No coordinate_reference_system argument (None).
NoCrs == [given |-> FALSE, authid |-> ""]

\* Mutant: the layer is made without looking at the CRS argument.
create_memory_layer_NoCrs(geometry, coordinate_reference_system, flds) ==
    LET memory_layer == [wkb |-> geometry,
                         type_string |-> typeString(geometry),
                         crs |-> None,
                         keywords |-> [inasafe_fields |-> {}],
                         provFields |-> <<>>, provFeatures |-> <<>>,
                         editing |-> FALSE,
                         addedFields |-> <<>>, addedFeatures |-> <<>>,
                         changed |-> {}]
    IN  IF flds # <<>> THEN addAttributes(memory_layer, flds) ELSE memory_layer

\* Lines 118-132: the memory layer of a supported geometry.  crs is the
\* crs parameter of the uri (None: the uri has none).
create_memory_layer(geometry, coordinate_reference_system, flds) ==
    LET memory_layer == [wkb |-> geometry,
                         type_string |-> typeString(geometry),
                         crs |-> IF coordinate_reference_system.given
                                 THEN lower(coordinate_reference_system.authid)
                                 ELSE None,
                         keywords |-> [inasafe_fields |-> {}],
                         provFields |-> <<>>, provFeatures |-> <<>>,
                         editing |-> FALSE,
                         addedFields |-> <<>>, addedFeatures |-> <<>>,
                         changed |-> {}]
    IN  IF flds # <<>> THEN addAttributes(memory_layer, flds) ELSE memory_layer

\* ------------------------------------------------------------ copy_layer
\* safe.gis.vector.clean_geometry.geometry_checker: the repaired geometry,
\* or None when there is none.
geometry_checker(geom) ==
    CASE geom = None -> None
      [] geom = "valid" -> "valid"
      [] geom = "fixable" -> "fixed"
      [] geom = "broken" -> None
      [] OTHER -> geom

isGeosValid(geom) == geom \in {"valid", "fixed"}

\* QgsGeometry(geom): a copy of geom; of None, a geometry holding nothing.
QgsGeometry(geom) == IF geom = None THEN EmptyGeometry ELSE geom

\* Lines 150-162: whether the source is an aggregation layer.
isAggregation(src) == src.layer_purpose = "aggregation"

\* Mutant: the selection is honoured whatever the purpose of the source.
filtersSelected_AnyPurpose(src) ==
    src.use_selected = "true" /\ Cardinality(src.selected) > 0

\* Lines 151-160: whether request.setFilterFids is called.  use_selected is
\* "absent" when the source has no use_selected_features_only attribute
\* (the AttributeError branch).
filtersSelected(src) ==
    IF isAggregation(src)
    THEN LET use_selected_only ==
                 IF src.use_selected = "absent" THEN FALSE
                 ELSE src.use_selected = "true"
         IN  use_selected_only /\ Cardinality(src.selected) > 0
    ELSE FALSE

\* source.getFeatures(request): the features in storage order, those with
\* a selected id only when the request is filtered.
sourceFeatures(src) ==
    IF filtersSelected(src)
    THEN SelectSeq(src.features, LAMBDA f : f.id \in src.selected)
    ELSE src.features

\* Mutant: the geometry of every source goes through the validator.
outFeature_AlwaysChecked(feature, aggregation_layer) ==
    [geom |-> QgsGeometry(geometry_checker(feature.geom)),
     attrs |-> feature.attrs]

\* Lines 165-176: the feature given to target.addFeature for one source
\* feature.
outFeature(feature, aggregation_layer) ==
    LET geom == IF aggregation_layer THEN geometry_checker(feature.geom)
                ELSE feature.geom
    IN  [geom |-> QgsGeometry(geom), attrs |-> feature.attrs]

\* Mutant: the diagnostic is logged for a missing geometry only.
logsInvalid_NullOnly(feature, aggregation_layer) ==
    aggregation_layer /\ geometry_checker(feature.geom) = None

\* Lines 171-174: whether the diagnostic is logged for one source feature.
logsInvalid(feature, aggregation_layer) ==
    /\ aggregation_layer
    /\ LET geom == geometry_checker(feature.geom)
       IN  geom = None \/ ~isGeosValid(geom)

\* Lines 164-177: the loop.
RECURSIVE copyLoop(_, _, _)
copyLoop(T, feats, aggregation_layer) ==
    IF feats = <<>> THEN T
    ELSE copyLoop(addFeature(T, outFeature(Head(feats), aggregation_layer)),
                  Tail(feats), aggregation_layer)

\* Mutant: the features are staged on a target emptied first.
copyStaged_Replacing(src, T) ==
    copyLoop(startEditing([T EXCEPT !.provFeatures = <<>>, !.addedFeatures = <<>>]),
             sourceFeatures(src), isAggregation(src))

\* copy_layer(source, target) up to its commit.
copyStaged(src, T) == copyLoop(startEditing(T), sourceFeatures(src), isAggregation(src))

copy_layer(src, T, ok) == commitChanges(copyStaged(src, T), ok)

\* ----------------------------------------------------------- copy_fields
\* Lines 207-211: the loop over layer.getFeatures() of one entry.
RECURSIVE changeLoop(_, _, _, _)
changeLoop(L, feats, index, new_index) ==
    IF feats = <<>> THEN L
    ELSE LET feature == Head(feats)
             source_value == feature.attrs[index + 1]
         IN  changeLoop(
                 changeAttributeValue(L, feature.id, new_index, source_value),
                 Tail(feats), index, new_index)

\* Lines 197-211: one entry of fields_to_copy whose field exists, up to
\* its commit.
stageField(L, field, new_name) ==
    LET index == fieldNameIndex(L, field)
        L1 == startEditing(L)
        source_field == layerFields(L1)[index + 1]
        new_field == [source_field EXCEPT !.name = new_name]
        L2 == addAttribute(L1, new_field)
        new_index == fieldNameIndex(L2, new_name)
    IN  changeLoop(L2, getFeatures(L2), index, new_index)

\* Lines 192-214: copy_fields.  entries is fields_to_copy in the order the
\* dictionary is iterated, oks[i] the outcome of the commit of entry i.
\* The result holds the layer, the values the commits returned and whether
\* some addAttribute was refused.
RECURSIVE copyFieldsFrom(_, _, _)
copyFieldsFrom(R, entries, oks) ==
    IF entries = <<>> THEN R
    ELSE LET field == Head(entries)[1]
             new_name == Head(entries)[2]
             index == fieldNameIndex(R.layer, field)
         IN  IF index = -1
             THEN copyFieldsFrom(R, Tail(entries), Tail(oks))
             ELSE LET staged == stageField(R.layer, field, new_name)
                      refused == fieldNameIndex(startEditing(R.layer), new_name) # -1
                  IN  copyFieldsFrom(
                          [layer |-> commitChanges(staged, Head(oks)),
                           commits |-> Append(R.commits,
                                              commitResult(staged, Head(oks))),
                           refused |-> R.refused \/ refused],
                          Tail(entries), Tail(oks))

copy_fields(L, entries, oks) ==
    copyFieldsFrom([layer |-> L, commits |-> <<>>, refused |-> FALSE],
                   entries, oks)

\* --------------------------------------------------------- remove_fields
\* Lines 227-233: the indexes of the names that are fields of the layer.
indexToRemove(L, fields_to_remove) ==
    {fieldNameIndex(L, field) : field \in fields_to_remove} \ {-1}

\* Mutant: the fields are deleted one call at a time, lowest index first,
\* each by the index it had before any deletion.
RECURSIVE deleteEach(_, _)
deleteEach(L, idxs) ==
    IF idxs = {} THEN L
    ELSE LET i == CHOOSE x \in idxs : \A y \in idxs : x <= y
         IN  deleteEach(deleteAttributes(L, {i}), idxs \ {i})

remove_fields_StaleIndexes(L, fields_to_remove) ==
    deleteEach(L, indexToRemove(L, fields_to_remove))

\* Lines 227-236: remove_fields (updateFields recomputes layer.fields(),
\* which layerFields does at every read).
remove_fields(L, fields_to_remove) ==
    deleteAttributes(L, indexToRemove(L, fields_to_remove))

\* -------------------------------------------------- create_spatial_index
\* No index built.
NoIndex == [built |-> FALSE, entries |-> {}]

\* Mutant: the index is built from the features of the data provider.
create_spatial_index_Committed(L) ==
    [built |-> TRUE,
     entries |-> {[id |-> k, box |-> L.provFeatures[k].geom] :
                     k \in DOMAIN L.provFeatures}]

\* Lines 240-252: QgsSpatialIndex(layer.getFeatures()): the identifier and
\* the bounding box of the geometry of every feature iterated.
create_spatial_index(L) ==
    [built |-> TRUE,
     entries |-> {[id |-> f.id, box |-> f.geom] : f \in Range(getFeatures(L))}]

\* ------------------------------------------------------------- the state
\* Field schema shared by the source and the target made for it.
SourceSchema == <<[name |-> "A", type |-> "int"], [name |-> "B", type |-> "str"]>>

SourceLayers ==
    {[layer_purpose |-> p, use_selected |-> u, selected |-> s,
      features |-> [i \in 1..MaxSourceFeatures |->
                       [id |-> i, geom |-> g[i],
                        attrs |-> <<ToString(i), "x">>]]] :
        p \in {"aggregation", "exposure"},
        u \in {"absent", "false", "true"},
        s \in SUBSET (1..MaxSourceFeatures),
        g \in [1..MaxSourceFeatures -> SourceGeometries]}

NoCall == [op |-> "none", pre |-> <<>>, ret |-> None, commits |-> <<>>,
           iterated |-> <<>>, logged |-> <<>>, entries |-> <<>>,
           names |-> {}, refused |-> FALSE, args |-> <<>>, result |-> <<>>]

IdleLayer == create_memory_layer("NoGeometry", NoCrs, <<>>)

Init ==
    /\ source \in SourceLayers
    /\ target = create_memory_layer("Polygon", NoCrs, SourceSchema)
    /\ layer = IdleLayer
    /\ last = NoCall
    /\ calls = 0
    /\ spatial_index = NoIndex

\* One call copy_layer(source, target); ok is the outcome of its commit.
CopyLayer ==
    /\ calls < MaxCalls
    /\ \E ok \in BOOLEAN :
          LET staged == copyStaged(source, target)
              feats == sourceFeatures(source)
          IN  /\ target' = copy_layer(source, target, ok)
              /\ last' = [NoCall EXCEPT
                    !.op = "copy_layer",
                    !.pre = target,
                    !.ret = None,
                    !.commits = <<commitResult(staged, ok)>>,
                    !.iterated = [i \in DOMAIN feats |-> feats[i].id],
                    !.logged = [i \in DOMAIN feats |->
                                   logsInvalid(feats[i], isAggregation(source))]]
    /\ calls' = calls + 1
    /\ UNCHANGED <<source, layer, spatial_index>>

Next == CopyLayer

Spec == Init /\ [][Next]_vars

\* ------------------------------------------------ the field editor alone
\* The layers the field editor is given: made by create_memory_layer with
\* one or two fields and filled by one committed copy_layer from a layer
\* of the same schema; every value in such a layer is distinct.
EditorSchemas ==
    {<<[name |-> "A", type |-> "int"]>>,
     <<[name |-> "A", type |-> "int"], [name |-> "B", type |-> "str"]>>}

EditorSource(w, schema) ==
    [layer_purpose |-> "exposure", use_selected |-> "absent", selected |-> {},
     features |-> [i \in 1..NumLayerFeatures |->
                      [id |-> i,
                       geom |-> IF w = "NoGeometry" THEN None ELSE "valid",
                       attrs |-> [c \in DOMAIN schema |->
                                     ToString(i + (c - 1) * NumLayerFeatures)]]]]

EditorLayer(w, schema) ==
    copy_layer(EditorSource(w, schema), create_memory_layer(w, NoCrs, schema), TRUE)

\* fields_to_copy: every dictionary with keys in OldNames and values in
\* Names, in every order its entries can be iterated in.
Renames ==
    {e \in UNION {[1..n -> OldNames \X Names] : n \in 0..Cardinality(OldNames)} :
        \A i, j \in DOMAIN e : i # j => e[i][1] # e[j][1]}

InitFields ==
    /\ source = EditorSource("Polygon", <<>>)
    /\ target = IdleLayer
    /\ \E w \in WkbFamilies : \E schema \in EditorSchemas :
          layer = EditorLayer(w, schema)
    /\ last = NoCall
    /\ calls = 0
    /\ spatial_index = NoIndex

\* One call copy_fields(layer, fields_to_copy); oks[i] is whether the
\* provider accepts the commit of entry i.
CopyFields ==
    /\ calls < MaxEditorCalls
    /\ \E entries \in Renames : \E oks \in [DOMAIN entries -> BOOLEAN] :
          \E r \in {copy_fields(layer, entries, oks)} :
              /\ layer' = r.layer
              /\ last' = [NoCall EXCEPT
                    !.op = "copy_fields",
                    !.pre = layer,
                    !.ret = None,
                    !.commits = r.commits,
                    !.entries = entries,
                    !.refused = r.refused]
    /\ calls' = calls + 1
    /\ UNCHANGED <<source, target, spatial_index>>

\* One call remove_fields(layer, fields_to_remove).
RemoveFields ==
    /\ calls < MaxEditorCalls
    /\ \E fields_to_remove \in SUBSET Names :
          /\ layer' = remove_fields(layer, fields_to_remove)
          /\ last' = [NoCall EXCEPT
                !.op = "remove_fields",
                !.pre = layer,
                !.ret = None,
                !.names = fields_to_remove]
    /\ calls' = calls + 1
    /\ UNCHANGED <<source, target, spatial_index>>

NextFields == CopyFields \/ RemoveFields

SpecFields == InitFields /\ [][NextFields]_vars

\* ------------------------------------------- a layer and its spatial index
IndexedSchema == <<[name |-> "A", type |-> "int"], [name |-> "B", type |-> "str"]>>

InitIndex ==
    /\ source = EditorSource("Polygon", IndexedSchema)
    /\ target = IdleLayer
    /\ layer = EditorLayer("Polygon", IndexedSchema)
    /\ last = NoCall
    /\ calls = 0
    /\ spatial_index = NoIndex

\* index = create_spatial_index(layer)
BuildIndex ==
    /\ spatial_index' = create_spatial_index(layer)
    /\ last' = [NoCall EXCEPT !.op = "create_spatial_index", !.pre = layer]
    /\ UNCHANGED <<source, target, layer, calls>>

\* One call copy_layer(source, layer); ok is the outcome of its commit.
CopyLayerIndexed ==
    /\ calls < MaxCalls
    /\ \E ok \in BOOLEAN :
          /\ layer' = copy_layer(source, layer, ok)
          /\ last' = [NoCall EXCEPT
                !.op = "copy_layer",
                !.pre = layer,
                !.ret = None,
                !.commits = <<commitResult(copyStaged(source, layer), ok)>>]
    /\ calls' = calls + 1
    /\ UNCHANGED <<source, target, spatial_index>>

NextIndex == BuildIndex \/ CopyLayerIndexed \/ CopyFields \/ RemoveFields

SpecIndex == InitIndex /\ [][NextIndex]_vars

\* --------------------------------------- field edits one after another
MaxEdits == 2

InitEdits ==
    /\ source = EditorSource("Polygon", <<>>)
    /\ target = IdleLayer
    /\ layer = EditorLayer("Polygon", IndexedSchema)
    /\ last = NoCall
    /\ calls = 0
    /\ spatial_index = NoIndex

\* One call copy_fields(layer, {field: new_name}); ok is whether the
\* provider accepts the commit.
CopyField ==
    /\ calls < MaxEdits
    /\ \E entries \in {e \in Renames : Len(e) = 1} : \E ok \in BOOLEAN :
          \E r \in {copy_fields(layer, entries, <<ok>>)} :
              /\ layer' = r.layer
              /\ last' = [NoCall EXCEPT
                    !.op = "copy_fields",
                    !.pre = layer,
                    !.ret = None,
                    !.commits = r.commits,
                    !.entries = entries,
                    !.refused = r.refused]
    /\ calls' = calls + 1
    /\ UNCHANGED <<source, target, spatial_index>>

\* One call remove_fields(layer, fields_to_remove).
RemoveNamed ==
    /\ calls < MaxEdits
    /\ \E fields_to_remove \in SUBSET Names :
          /\ layer' = remove_fields(layer, fields_to_remove)
          /\ last' = [NoCall EXCEPT
                !.op = "remove_fields",
                !.pre = layer,
                !.ret = None,
                !.names = fields_to_remove]
    /\ calls' = calls + 1
    /\ UNCHANGED <<source, target, spatial_index>>

NextEdits == CopyField \/ RemoveNamed

SpecEdits == InitEdits /\ [][NextEdits]_vars

\* ------------------------------------------------------- SizeCalculator
\* A float: a number in fixed point (One is 1.0), NaN, or an infinity.
One == 10000
Num(v) == [k |-> "num", v |-> v]
NaN == [k |-> "nan", v |-> 0]
PosInf == [k |-> "inf", v |-> 0]
NegInf == [k |-> "-inf", v |-> 0]

\* math.isnan
isnan(a) == a.k = "nan"

\* float + float
fadd(a, b) ==
    CASE isnan(a) \/ isnan(b) -> NaN
      [] a.k = "num" /\ b.k = "num" -> Num(a.v + b.v)
      [] a.k = "num" -> b
      [] b.k = "num" -> a
      [] a.k = b.k -> a
      [] OTHER -> NaN

\* round(float): to the nearest whole number, halves away from zero; NaN
\* and the infinities are returned as they are.
round(a) ==
    IF a.k # "num" THEN a
    ELSE IF a.v >= 0 THEN Num(((2 * a.v + One) \div (2 * One)) * One)
    ELSE Num(0 - ((((0 - 2 * a.v) + One) \div (2 * One)) * One))

Units == {"metres", "kilometres", "square_metres", "hectares"}
UnsupportedUnitError == "UnsupportedUnitError"

\* The Unit Conversion Service: the converted number, or the error raised
\* for a pair of units it does not know.
convert_unit(number, input_unit, expected_unit) ==
    LET scaled(mul, div) ==
            [raised |-> None,
             value |-> IF number.k = "num" THEN Num((number.v * mul) \div div)
                       ELSE number]
    IN  CASE input_unit = "metres" /\ expected_unit = "kilometres" -> scaled(1, 1000)
          [] input_unit = "kilometres" /\ expected_unit = "metres" -> scaled(1000, 1)
          [] input_unit = "square_metres" /\ expected_unit = "hectares" -> scaled(1, 10000)
          [] input_unit = "hectares" /\ expected_unit = "square_metres" -> scaled(10000, 1)
          [] OTHER -> [raised |-> UnsupportedUnitError, value |-> number]

\* The exposure definitions: the size_unit of definition(exposure_key).
definition(exposure_key) ==
    [size_unit |-> CASE exposure_key = "road" -> "metres"
                     [] exposure_key = "railway" -> "kilometres"
                     [] exposure_key = "structure" -> "square_metres"
                     [] OTHER -> "hectares"]

ExposureKeys == {None, "road", "railway", "structure", "land_cover"}
GeometryTypes == {"PointGeometry", "LineGeometry", "PolygonGeometry"}

\* Lines 314-342: the calculator after construction.
SizeCalculator(geometry_type, exposure_key) ==
    [geometry_type |-> geometry_type,
     default_unit |-> IF geometry_type = "LineGeometry" THEN "metres"
                      ELSE "square_metres",
     output_unit |-> IF exposure_key # None
                     THEN definition(exposure_key).size_unit ELSE None]

\* Lines 358-361, 371-374: measureLength or measureArea of one part; the
\* part carries what each of the two returns for it.
geometrySize(calc, single) ==
    IF calc.geometry_type = "LineGeometry" THEN single.length ELSE single.area

\* Lines 357-368: the loop over the parts of a multipart geometry; acc is
\* feature_size and the number of messages logged.
RECURSIVE sizeLoop(_, _, _)
sizeLoop(calc, parts, acc) ==
    IF parts = <<>> THEN acc
    ELSE LET geometry_size == geometrySize(calc, Head(parts))
         IN  sizeLoop(calc, Tail(parts),
                 IF ~isnan(geometry_size)
                 THEN [acc EXCEPT !.feature_size = fadd(acc.feature_size, geometry_size)]
                 ELSE [acc EXCEPT !.logged = acc.logged + 1])

\* Lines 352-380: feature_size before it is rounded, and the messages
\* logged.
featureSize(calc, geometry) ==
    IF geometry.isMultipart
    THEN sizeLoop(calc, geometry.parts, [feature_size |-> Num(0), logged |-> 0])
    ELSE LET geometry_size == geometrySize(calc, geometry.parts[1])
         IN  IF ~isnan(geometry_size)
             THEN [feature_size |-> geometry_size, logged |-> 0]
             ELSE [feature_size |-> Num(0), logged |-> 1]

\* Mutant: the size is converted first and rounded afterwards.
measure_ConvertThenRound(calc, geometry) ==
    LET sized == featureSize(calc, geometry)
        call == calc.output_unit # None /\ calc.output_unit # calc.default_unit
        out == IF call
               THEN convert_unit(sized.feature_size, calc.default_unit, calc.output_unit)
               ELSE [raised |-> None, value |-> sized.feature_size]
    IN  [raised |-> out.raised, value |-> round(out.value),
         logged |-> sized.logged, converted |-> IF call THEN 1 ELSE 0]

\* Lines 344-389: measure.  raised is the error that reaches the caller
\* (None: the call returns value); converted counts the calls of
\* convert_unit.
measure(calc, geometry) ==
    LET sized == featureSize(calc, geometry)
        feature_size == round(sized.feature_size)
        call == calc.output_unit # None /\ calc.output_unit # calc.default_unit
        out == IF call
               THEN convert_unit(feature_size, calc.default_unit, calc.output_unit)
               ELSE [raised |-> None, value |-> feature_size]
    IN  [raised |-> out.raised, value |-> out.value,
         logged |-> sized.logged, converted |-> IF call THEN 1 ELSE 0]

\* -------------------------------------------------- the layer factory
\* The geometry argument: the four supported values and two others.
GeometryInputs == WkbFamilies \cup {"UnknownGeometry", "Raster"}

\* The coordinate_reference_system argument: none, two CRS, and a CRS
\* object that is not valid (its authority identifier is empty).
CrsInputs ==
    {NoCrs} \cup {[given |-> TRUE, authid |-> a] : a \in {"EPSG:4326", "EPSG:32748", ""}}

FieldDefinitions ==
    {[name |-> "A", type |-> "int"], [name |-> "B", type |-> "str"],
     [name |-> "C", type |-> "int"]}

\* The fields argument (QgsFields): none, or fields of distinct names, in
\* every order.
FieldInputs ==
    {f \in UNION {[1..n -> FieldDefinitions] : n \in 0..Cardinality(FieldDefinitions)} :
        \A i, j \in DOMAIN f : i # j => f[i].name # f[j].name}

InitCreate ==
    /\ source = EditorSource("Polygon", <<>>)
    /\ target = IdleLayer
    /\ layer = IdleLayer
    /\ last = NoCall
    /\ calls = 0
    /\ spatial_index = NoIndex

\* One call create_memory_layer(layer_name, geometry, crs, fields); the
\* layer it returns is kept in layer, and nothing is returned when it
\* raises.  The function reads nothing but its arguments, so one call
\* from the initial state stands for every call.
CreateLayer ==
    /\ last.op = "none"
    /\ \E geometry \in GeometryInputs : \E crs \in CrsInputs : \E flds \in FieldInputs :
          LET raises == typeString(geometry) = MemoryLayerCreationError
          IN  /\ layer' = IF raises THEN layer
                          ELSE create_memory_layer(geometry, crs, flds)
              /\ last' = [NoCall EXCEPT
                    !.op = "create_memory_layer",
                    !.pre = layer,
                    !.args = [geometry |-> geometry, crs |-> crs, fields |-> flds],
                    !.result = IF raises
                               THEN [raised |-> MemoryLayerCreationError,
                                     message |-> <<"Layer is whether Point nor Line nor Polygon, I got", geometry>>]
                               ELSE [raised |-> None, message |-> <<>>]]
    /\ UNCHANGED <<source, target, calls, spatial_index>>

NextCreate == CreateLayer

SpecCreate == InitCreate /\ [][NextCreate]_vars

\* ------------------------------------------------- the size calculator
MaxParts == 3

\* What measureLength and measureArea return for a single part.
PartSizes ==
    {[length |-> Num(104000), area |-> Num(51000)],
     [length |-> Num(51000), area |-> Num(104000)],
     [length |-> Num(5000), area |-> Num(25000)],
     [length |-> NaN, area |-> NaN],
     [length |-> PosInf, area |-> NegInf],
     [length |-> NegInf, area |-> PosInf]}

\* The geometry argument: a single part, or a collection of 0..MaxParts
\* parts.
Geometries ==
    {[isMultipart |-> FALSE, parts |-> <<single>>] : single \in PartSizes}
    \cup {[isMultipart |-> TRUE, parts |-> parts] :
            parts \in UNION {[1..n -> PartSizes] : n \in 0..MaxParts}}

InitMeasure ==
    /\ source = EditorSource("Polygon", <<>>)
    /\ target = IdleLayer
    /\ layer = IdleLayer
    /\ last = NoCall
    /\ calls = 0
    /\ spatial_index = NoIndex

\* SizeCalculator(crs, geometry_type, exposure_key).measure(geometry).  A
\* calculator keeps nothing from one call of measure to the next, so one
\* call stands for every call.
Measure ==
    /\ last.op = "none"
    /\ \E geometry_type \in GeometryTypes : \E exposure_key \in ExposureKeys :
       \E geometry \in Geometries :
          LET calc == SizeCalculator(geometry_type, exposure_key)
          IN  last' = [NoCall EXCEPT
                    !.op = "measure",
                    !.args = [calc |-> calc, geometry |-> geometry],
                    !.result = measure(calc, geometry)]
    /\ UNCHANGED <<source, target, layer, calls, spatial_index>>

NextMeasure == Measure

SpecMeasure == InitMeasure /\ [][NextMeasure]_vars

\* ======================================================= copy_layer claims
\* What the last call appended to the features a reader of the target sees.
appended ==
    LET now == featureContents(target)
        before == featureContents(last.pre)
    IN  SubSeq(now, Len(before) + 1, Len(now))

\* The source feature with the given id.
sourceFeature(id) == CHOOSE f \in Range(source.features) : f.id = id

AllSourceIds == {f.id : f \in Range(source.features)}

\* C1: when the commit of copy_layer fails, the features of the target
\* after the call are the features it had before the call.
C1_FailedCommitLeavesTarget ==
    (last.op = "copy_layer" /\ last.commits = <<FALSE>>)
        => featureContents(target) = featureContents(last.pre)

\* C2: a call of copy_layer or copy_fields in which a commit failed tells
\* its caller: what it hands back differs from what a successful call
\* hands back (None).
C2_FailureSurfaced ==
    (last.op \in {"copy_layer", "copy_fields"} /\ FALSE \in Range(last.commits))
        => last.ret # None

\* The ids the selection rule of copy_layer names.
C3_Expected ==
    IF /\ source.layer_purpose = "aggregation"
       /\ source.use_selected = "true"
       /\ source.selected # {}
    THEN source.selected
    ELSE AllSourceIds

\* C3: copy_layer copies exactly the selected features when the source is
\* an aggregation layer, its use-selected-only flag is set and something
\* is selected; every source feature in all other cases, whatever is
\* selected.
C3_SelectionAwareCopy ==
    last.op = "copy_layer" =>
        /\ Range(last.iterated) = C3_Expected
        /\ Len(appended) = Cardinality(C3_Expected)
        /\ {appended[i].attrs[1] : i \in DOMAIN appended}
               = {ToString(id) : id \in C3_Expected}

C3_Witness ==
    /\ last.op = "copy_layer"
    /\ source.layer_purpose = "aggregation"
    /\ source.use_selected = "true"
    /\ source.selected # {}
    /\ source.selected # AllSourceIds
    /\ Len(appended) = Cardinality(source.selected)

\* The geometry a copied feature is to carry.
C4_ExpectedGeometry(f) ==
    LET g == IF source.layer_purpose = "aggregation"
             THEN geometry_checker(f.geom) ELSE f.geom
    IN  IF g = None THEN EmptyGeometry ELSE g

\* C4: the target receives, after the features it had and in source
\* iteration order, one feature per iterated source feature, with that
\* feature's attributes verbatim and with the validator's output as
\* geometry for an aggregation source, the source geometry otherwise (an
\* absent geometry arriving as a geometry that holds nothing).
C4_VerbatimInOrder ==
    last.op = "copy_layer" =>
        featureContents(target) =
            featureContents(last.pre)
            \o [i \in DOMAIN last.iterated |->
                   [geom |-> C4_ExpectedGeometry(sourceFeature(last.iterated[i])),
                    attrs |-> sourceFeature(last.iterated[i]).attrs]]

C4_Witness ==
    /\ last.op = "copy_layer"
    /\ source.layer_purpose # "aggregation"
    /\ Len(last.iterated) >= 2
    /\ \E i \in DOMAIN appended : appended[i].geom = "fixable"
    /\ Len(featureContents(last.pre)) > 0

\* C5: no geometry makes copy_layer skip a feature or stop: every
\* iterated feature is staged, absent or unrepairable geometry included, a
\* successful commit stores them all, and the diagnostic is logged for
\* exactly the features of an aggregation source whose repaired geometry
\* is null or invalid.
C5_GeometryNeverBlocks ==
    last.op = "copy_layer" =>
        /\ Len(appended) = Len(last.iterated)
        /\ Len(last.iterated) =
               Cardinality({id \in AllSourceIds :
                   filtersSelected(source) => id \in source.selected})
        /\ \A i \in DOMAIN last.iterated :
               last.logged[i] =
                   (/\ source.layer_purpose = "aggregation"
                    /\ sourceFeature(last.iterated[i]).geom
                           \in {None, "broken", "stubborn"})
        /\ last.commits = <<TRUE>> =>
               /\ ~target.editing
               /\ target.provFeatures = featureContents(target)
               /\ Len(target.provFeatures)
                      = Len(featureContents(last.pre)) + Len(last.iterated)

C5_Witness ==
    /\ last.op = "copy_layer"
    /\ last.commits = <<TRUE>>
    /\ source.layer_purpose = "aggregation"
    /\ \E i, j \in DOMAIN last.iterated :
          /\ sourceFeature(last.iterated[i]).geom = None
          /\ sourceFeature(last.iterated[j]).geom = "stubborn"
          /\ last.logged[i] /\ last.logged[j]
    /\ Len(target.provFeatures) >= 2

\* ===================================================== field editor claims
fieldNames(L) == {f.name : f \in Range(layerFields(L))}

\* The value a reader of L sees in the field called name of feature k.
valueOf(L, k, name) == getFeatures(L)[k].attrs[fieldNameIndex(L, name) + 1]

\* The values of every field of the layer before the call are the values
\* a reader sees in the field of that name now.
keepsValues(names) ==
    \A n \in names :
        /\ n \in fieldNames(layer)
        /\ \A k \in DOMAIN getFeatures(last.pre) :
               valueOf(layer, k, n) = valueOf(last.pre, k, n)

\* C6: after copy_fields(layer, {A: B}) with A a field of the layer, B
\* holds for every feature the value A had when the call started, B has
\* A's type, B is appended at the end of the schema, and A and the other
\* fields keep their values.
C6_CopyRoundTrip ==
    (/\ last.op = "copy_fields"
     /\ Len(last.entries) = 1
     /\ last.entries[1][1] \in fieldNames(last.pre))
        => LET A == last.entries[1][1]
               B == last.entries[1][2]
               before == layerFields(last.pre)
               now == layerFields(layer)
           IN  /\ B \in fieldNames(layer)
               /\ \A k \in DOMAIN getFeatures(layer) :
                      valueOf(layer, k, B) = valueOf(last.pre, k, A)
               /\ now[fieldNameIndex(layer, B) + 1].type
                      = before[fieldNameIndex(last.pre, A) + 1].type
               /\ Len(now) = Len(before) + 1
               /\ now[Len(now)].name = B
               /\ keepsValues(fieldNames(last.pre) \ {B})

\* C7: names that are no fields are ignored, by both operations.  A
\* copy_fields none of whose old names is a field changes nothing, and an
\* entry whose old name is no field does not keep another entry, from an
\* existing field to a name of its own that is new, from adding its field.
\* remove_fields does what it does for the names that are fields alone,
\* and a second remove_fields with the same names changes nothing.
C7_MissingNamesIgnored ==
    /\ last.op = "copy_fields" =>
           /\ (\A i \in DOMAIN last.entries :
                   last.entries[i][1] \notin fieldNames(last.pre))
                  => layer = last.pre
           /\ \A i \in DOMAIN last.entries :
                  (/\ last.entries[i][1] \in fieldNames(last.pre)
                   /\ last.entries[i][2] \notin fieldNames(last.pre)
                   /\ \A j \in DOMAIN last.entries :
                          j # i => last.entries[j][2] # last.entries[i][2])
                      => last.entries[i][2] \in fieldNames(layer)
    /\ last.op = "remove_fields" =>
           /\ layer = remove_fields(last.pre,
                                    last.names \cap fieldNames(last.pre))
           /\ (last.names \cap fieldNames(last.pre) = {}) => layer = last.pre
           /\ remove_fields(layer, last.names) = layer

C7_Witness ==
    /\ last.op = "remove_fields"
    /\ last.names \ fieldNames(last.pre) # {}
    /\ Cardinality(last.names \cap fieldNames(last.pre)) = 2
    /\ layerFields(layer) = <<>>
    /\ Len(getFeatures(layer)) = NumLayerFeatures

C9_UniqueNamesNoOverwrite ==
    /\ \A i, j \in DOMAIN layerFields(layer) :
           layerFields(layer)[i].name = layerFields(layer)[j].name => i = j
    /\ last.op = "copy_fields" => keepsValues(fieldNames(last.pre))

\* C10: a field editor call in which a step failed (an addAttribute
\* refused, a commit failed) leaves nothing of its changes for the
\* layer's readers to see.
C10_AtomicFieldEdits ==
    (/\ last.op = "copy_fields"
     /\ (last.refused \/ FALSE \in Range(last.commits)))
        => /\ layerFields(layer) = layerFields(last.pre)
           /\ featureContents(layer) = featureContents(last.pre)

\* ==================================================== layer factory claims
\* C11: create_memory_layer with a geometry outside Point, Line, Polygon
\* and NoGeometry raises an error whose message names the value given and
\* produces no layer; with one of the four it does not raise.
C11_UnsupportedGeometryRaises ==
    last.op = "create_memory_layer" =>
        IF last.args.geometry \in {"Point", "Line", "Polygon", "NoGeometry"}
        THEN /\ last.result.raised = None
             /\ layer.wkb = last.args.geometry
        ELSE /\ last.result.raised = MemoryLayerCreationError
             /\ last.args.geometry \in Range(last.result.message)
             /\ layer = last.pre

C11_Witness ==
    /\ last.op = "create_memory_layer"
    /\ last.args.geometry = "UnknownGeometry"
    /\ last.result.raised = MemoryLayerCreationError
    /\ layer = IdleLayer

\* C12: the layer create_memory_layer returns has no features, the given
\* fields in the given order as its schema (none when none are given),
\* the authority identifier of the given CRS (in lower case) as its CRS
\* and none when no CRS is given, and the keywords {'inasafe_fields': {}}.
C12_CreatedLayer ==
    (last.op = "create_memory_layer" /\ last.result.raised = None) =>
        /\ getFeatures(layer) = <<>>
        /\ layerFields(layer) = last.args.fields
        /\ ~layer.editing
        /\ IF last.args.crs.given
           THEN layer.crs = lower(last.args.crs.authid)
           ELSE layer.crs = None
        /\ DOMAIN layer.keywords = {"inasafe_fields"}
        /\ layer.keywords.inasafe_fields = {}

C12_Witness ==
    /\ last.op = "create_memory_layer"
    /\ last.result.raised = None
    /\ last.args.crs.given
    /\ layer.crs = "epsg:4326"
    /\ Len(layerFields(layer)) = 3
    /\ layerFields(layer)[1].name = "C"
    /\ layer.wkb = "NoGeometry"

\* ================================================== size calculator claims
\* The raw measurements of the parts of the geometry measured.
rawSizes(calc, geometry) ==
    [i \in DOMAIN geometry.parts |-> geometrySize(calc, geometry.parts[i])]

\* The sum of the finite ones among sizes.
RECURSIVE finiteSum(_)
finiteSum(sizes) ==
    IF sizes = <<>> THEN 0
    ELSE (IF Head(sizes).k = "num" THEN Head(sizes).v ELSE 0) + finiteSum(Tail(sizes))

notFinite(sizes) == {i \in DOMAIN sizes : sizes[i].k # "num"}

inDefaultUnit(calc) ==
    calc.output_unit = None \/ calc.output_unit = calc.default_unit

\* C13: in the default unit, measure returns the rounded sum of the finite
\* raw measurements of the parts: a part whose raw measurement is NaN or
\* an infinity is logged and contributes zero.
C13_NonFiniteDiscarded ==
    (last.op = "measure" /\ inDefaultUnit(last.args.calc)) =>
        LET sizes == rawSizes(last.args.calc, last.args.geometry)
        IN  /\ last.result.raised = None
            /\ last.result.value = round(Num(finiteSum(sizes)))
            /\ last.result.logged = Cardinality(notFinite(sizes))

\* C14: measure never fails: for every geometry and every calculator it
\* returns a number, every part that cannot be measured counting as zero
\* and being logged, and no error reaches the caller.
C14_MeasureNeverFails ==
    last.op = "measure" =>
        /\ last.result.raised = None
        /\ last.result.value.k = "num"
        /\ last.result.logged =
              Cardinality(notFinite(rawSizes(last.args.calc, last.args.geometry)))

\* C15: measure calls convert_unit exactly when an output unit is set and
\* differs from the default unit, and then returns
\* convert_unit(rounded size, default unit, output unit), the size being
\* rounded before it is converted; otherwise it returns the rounded size
\* and convert_unit is not called.
C15_ConvertsWhenUnitsDiffer ==
    last.op = "measure" =>
        LET calc == last.args.calc
            rounded == round(featureSize(calc, last.args.geometry).feature_size)
        IN  IF calc.output_unit # None /\ calc.output_unit # calc.default_unit
            THEN LET out == convert_unit(rounded, calc.default_unit, calc.output_unit)
                 IN  /\ last.result.converted = 1
                     /\ last.result.raised = out.raised
                     /\ last.result.value = out.value
            ELSE /\ last.result.converted = 0
                 /\ last.result.raised = None
                 /\ last.result.value = rounded

C15_Witness ==
    /\ last.op = "measure"
    /\ last.args.calc.default_unit = "metres"
    /\ last.args.calc.output_unit = "kilometres"
    /\ last.args.geometry.isMultipart
    /\ featureSize(last.args.calc, last.args.geometry).feature_size = Num(155000)
    /\ last.result.converted = 1
    /\ last.result.raised = None
    /\ last.result.value = Num(160)

\* ==================================================== spatial index claims
\* C16: the index create_spatial_index returns references exactly the
\* features the layer holds when it is built, and building it leaves the
\* layer as it is; a later copy_layer, copy_fields or remove_fields on the
\* layer leaves the index as it is.
C16_IndexIsSnapshot ==
    /\ [](last.op = "create_spatial_index" =>
            /\ layer = last.pre
            /\ spatial_index.built
            /\ {e.id : e \in spatial_index.entries} = {f.id : f \in Range(getFeatures(layer))}
            /\ Cardinality(spatial_index.entries) = Len(getFeatures(layer)))
    /\ [][last'.op # "create_spatial_index" => spatial_index' = spatial_index]_vars

\* An index built while copy_layer's features were pending, and out of
\* date after the commit of a later copy_layer.
C16_Witness ==
    /\ spatial_index.built
    /\ last.op = "copy_layer"
    /\ \E e \in spatial_index.entries : e.id < 0
    /\ ~layer.editing
    /\ {e.id : e \in spatial_index.entries} # {f.id : f \in Range(getFeatures(layer))}

\* ==================================================== remove_fields claims
\* The fields of L whose names are not in names, in their order.
otherFields(L, names) ==
    SelectSeq(layerFields(L), LAMBDA f : f.name \notin names)

\* C17: remove_fields(layer, names) removes exactly the fields of the
\* layer whose names are in names; every other field remains, in the same
\* relative order and with the same value for every feature, whichever
\* fields are named.
C17_RemovesExactlyNamed ==
    last.op = "remove_fields" =>
        /\ layerFields(layer) = otherFields(last.pre, last.names)
        /\ Len(getFeatures(layer)) = Len(getFeatures(last.pre))
        /\ keepsValues(fieldNames(last.pre) \ last.names)

\* ===================================================== edit session claims
\* C18: among calls of copy_layer and copy_fields on a layer no edit
\* session is opened while another is open, and when a call returns every
\* session it opened is closed, whether its commit succeeded or not.
C18_SessionsClosedOnReturn ==
    last.op \in {"copy_layer", "copy_fields"} => ~layer.editing

\* ======================================================= frame of copy_layer
\* C19: copy_layer changes the target by appending features and in no
\* other way: the source is as it was, the target has the schema, the
\* keywords, the CRS and the geometry type it had, every feature it had is
\* still there with its geometry and attributes, and after a commit that
\* succeeded it has as many features more as source features were iterated.
C19_OnlyAppends ==
    /\ [](last.op = "copy_layer" =>
            /\ layerFields(target) = layerFields(last.pre)
            /\ target.keywords = last.pre.keywords
            /\ target.crs = last.pre.crs
            /\ target.wkb = last.pre.wkb
            /\ Len(featureContents(target)) >= Len(featureContents(last.pre))
            /\ SubSeq(featureContents(target), 1, Len(featureContents(last.pre)))
                   = featureContents(last.pre)
            /\ last.commits = <<TRUE>> =>
                   /\ Len(getFeatures(target))
                          = Len(getFeatures(last.pre)) + Len(last.iterated)
                   /\ Len(target.provFeatures) = Len(getFeatures(target)))
    /\ [][source' = source]_vars

\* A second copy_layer, committed, onto the features the first one left
\* pending.
C19_Witness ==
    /\ last.op = "copy_layer"
    /\ last.commits = <<TRUE>>
    /\ Len(last.pre.addedFeatures) = MaxSourceFeatures
    /\ Len(last.iterated) = MaxSourceFeatures
    /\ Len(target.provFeatures) = 2 * MaxSourceFeatures
    /\ source.layer_purpose = "aggregation"

====
